---- MODULE Spec2Model ----
(***************************************************************************)
(* Commit graph traversal of p1-commits-check (traverse.go).               *)
(*                                                                         *)
(* The repository is a finite DAG of commits.  Traverse walks it depth     *)
(* first from the tip with one shared window (commitsSequence), two       *)
(* author sets and a revert reference.  The recursion of traverse is an    *)
(* explicit stack of frames; one action per step of the code.              *)
(* ParseRevertRef and CheckServer (check.go) have specifications of their  *)
(* own, SpecParse and SpecServer.                                          *)
(***************************************************************************)
EXTENDS Integers, Sequences, FiniteSets, TLC

VARIABLES
    graph,      \* the object store: commit id -> [author, when, msg, parents]
    missing,    \* ids whose object cannot be loaded (Parent(i) returns an error)
    tip,        \* the commit handed to Traverse
    teamSize,   \* the teamSize handed to Traverse
    pc,         \* "idle" | "running" | "returned" | "panicked"
    am,         \* Traverse: am, the set of all author emails
    ma,         \* Traverse: ma, the set of merge author emails
    cs,         \* Traverse: cs, the commitsSequence window
    revRef,     \* Traverse: revRef ("" is the empty tuple)
    stack,      \* activation records of traverse, innermost last
    result,     \* what Traverse returned to its caller, NoResult before
    run,        \* number of Traverse invocations started
    prev,       \* result of the previous invocation
    order,      \* history: commits in the order traverse visited them
    panicAt,    \* history: the <<commit, index>> whose resolution failed
    msgIn,      \* parser check: the message handed to ParseRevertRef
    parsed,     \* parser check: what ParseRevertRef returned
    srv         \* CheckServer: its position, the process and the checks made

vars == <<graph, missing, tip, teamSize, pc, am, ma, cs, revRef, stack,
          result, run, prev, order, panicAt, msgIn, parsed, srv>>

travVars == <<graph, missing, tip, teamSize, pc, am, ma, cs, revRef, stack,
              result, run, prev, order, panicAt>>

(***************************************************************************)
(* Bounds of the model.                                                    *)
(***************************************************************************)
MaxCommits == 3
MaxCalls == 2
MaxPieces == 3

AuthorName == <<"a", "b", "c", "d", "e", "f", "g", "h">>
Times == {1, 2}
TeamSizes == {1, 2, 3}

Nil == 0
NoResult == [none |-> TRUE]
Unset == <<"?">>

\* CheckServer before it is called
ServerIdle ==
    [pc |-> "idle", started |-> FALSE, killed |-> FALSE, ticker |-> FALSE,
     checks |-> 0, ticks |-> 0, rc |-> 0, errs |-> <<>>, ret |-> <<>>]

Min(x, y) == IF x < y THEN x ELSE y

(***************************************************************************)
(* Commit messages are sequences of characters.                            *)
(***************************************************************************)
HexDigits == {"a", "b", "c", "d", "e", "f",
              "0", "1", "2", "3", "4", "5", "6", "7", "8", "9"}
SpaceChars == {" ", "\t", "\n", "\f", "\r"}

HexMin == 7
HexMax == 40
WordLen == 6

IsHex(ch) == ch \in HexDigits
IsSpace(ch) == ch \in SpaceChars
\* '.' of the pattern: any character but a line feed
IsDot(ch) == ch # "\n"

\* [Rr]evert at position s
IsRevertWord(msg, s) ==
    /\ s + WordLen - 1 <= Len(msg)
    /\ msg[s] \in {"R", "r"}
    /\ SubSeq(msg, s + 1, s + WordLen - 1) = <<"e", "v", "e", "r", "t">>

\* the length of the longest stretch of positions from p on that ok admits
StretchLen(ok, p) ==
    CHOOSE n \in 0..Len(ok) :
        /\ p + n - 1 <= Len(ok)
        /\ \A i \in p..(p + n - 1) : ok[i]
        /\ p + n <= Len(ok) => ~ok[p + n]

HexRun(msg, q) ==
    IF q > Len(msg) THEN 0
    ELSE StretchLen([i \in 1..Len(msg) |-> IsHex(msg[i])], q)

SpaceRun(msg, p) ==
    IF p > Len(msg) THEN 0
    ELSE StretchLen([i \in 1..Len(msg) |-> IsSpace(msg[i])], p)

DotRun(msg, j) ==
    IF j > Len(msg) THEN 0
    ELSE StretchLen([i \in 1..Len(msg) |-> IsDot(msg[i])], j)

\* \s+([a-f0-9]{7,40}) at position p: the submatch, <<>> when it does not match.
\* Both quantifiers are greedy; a shorter \s+ leaves a space in front of the
\* group, so only the whole run of spaces can be followed by the group.
CaptureAt(msg, p) ==
    LET m == SpaceRun(msg, p)
        q == p + m
        h == HexRun(msg, q)
    IN  IF m >= 1 /\ h >= HexMin
        THEN SubSeq(msg, q, q + Min(h, HexMax) - 1)
        ELSE <<>>

\* the stretches .* may take from j, out of at most k characters, that leave
\* \s+ and the group a match
Takes(msg, j, k) == {n \in 0..k : CaptureAt(msg, j + n) # <<>>}

\* mutant: .*? instead of .*, the shortest stretch first
MatchDotStarLazy(msg, j, k) ==
    LET ok == Takes(msg, j, k)
    IN  IF ok = {} THEN <<>>
        ELSE CaptureAt(msg, j + (CHOOSE n \in ok : \A o \in ok : n <= o))

\* .* is greedy: it takes k characters from j and gives them back one at a time
\* until the rest of the pattern matches
MatchDotStar(msg, j, k) ==
    LET ok == Takes(msg, j, k)
    IN  IF ok = {} THEN <<>>
        ELSE CaptureAt(msg, j + (CHOOSE n \in ok : \A o \in ok : n >= o))

MatchAt(msg, s) ==
    IF IsRevertWord(msg, s)
    THEN MatchDotStar(msg, s + WordLen, DotRun(msg, s + WordLen))
    ELSE <<>>

\* the leftmost match of revertPtrn from position s on
FindFirst(msg, s) ==
    LET at == {t \in s..Len(msg) : MatchAt(msg, t) # <<>>}
    IN  IF at = {} THEN <<>>
        ELSE MatchAt(msg, CHOOSE t \in at : \A o \in at : t <= o)

ParseRevertRef(msg) == FindFirst(msg, 1)

(***************************************************************************)
(* The messages commits carry in the traversal model.                      *)
(***************************************************************************)
MsgNames == {"plain", "revA", "revB"}

Text(m) ==
    CASE m = "plain" -> <<"f", "i", "x", " ", "b", "u", "g">>
      [] m = "revA" -> <<"r", "e", "v", "e", "r", "t", " ",
                         "1", "2", "3", "4", "5", "6", "7">>
      [] m = "revB" -> <<"R", "e", "v", "e", "r", "t", "s", " ",
                         "a", "b", "c", "d", "e", "f", "0", "9">>

(***************************************************************************)
(* The commit model (go-git object.Commit).                                *)
(***************************************************************************)
Author(c) == graph[c].author
When(c) == graph[c].when
Message(c) == Text(graph[c].msg)
Parents(c) == graph[c].parents
NumParents(c) == Len(graph[c].parents)

\* mutant: not-after instead of before, equal timestamps count as out of order
BeforeOrSame(t, u) == t <= u

\* time.Time.Before
Before(t, u) == t < u

(***************************************************************************)
(* commitsSequence                                                         *)
(***************************************************************************)
ZeroSequence ==
    [start |-> Nil, end |-> Nil, authors |-> {}, lastTs |-> 0,
     nonChronological |-> FALSE, finished |-> FALSE]

\* mutant: the author map is not replaced, the new start is added to it
resetKeepsAuthors(w, co) ==
    IF w.finished THEN w
    ELSE [w EXCEPT !.start = co,
                   !.end = Nil,
                   !.authors = @ \cup {Author(co)},
                   !.lastTs = When(co)]

\* mutant: no test of finished, a finished window is replaced as well
resetUnguarded(w, co) ==
    [w EXCEPT !.start = co,
              !.end = Nil,
              !.authors = {Author(co)},
              !.lastTs = When(co)]

reset(w, co) ==
    IF w.finished THEN w
    ELSE [w EXCEPT !.start = co,
                   !.end = Nil,
                   !.authors = {Author(co)},
                   !.lastTs = When(co)]

\* mutant: finished does not ask for a non-chronological commit
handleSeqNoChrono(w, co, ts) ==
    IF w.finished THEN w
    ELSE IF NumParents(co) > 1 THEN w
    ELSE LET as == w.authors \cup {Author(co)}
             late == Before(w.lastTs, When(co))
         IN  [w EXCEPT !.end = co,
                       !.authors = as,
                       !.nonChronological = IF late THEN TRUE ELSE @,
                       !.lastTs = IF late THEN @ ELSE When(co),
                       !.finished = (Cardinality(as) = ts)]

\* mutant: no test of NumParents, a merge commit is folded like any other
handleSeqFoldsMerge(w, co, ts) ==
    IF w.finished THEN w
    ELSE LET as == w.authors \cup {Author(co)}
             late == Before(w.lastTs, When(co))
             nc == IF late THEN TRUE ELSE w.nonChronological
         IN  [w EXCEPT !.end = co,
                       !.authors = as,
                       !.nonChronological = nc,
                       !.lastTs = IF late THEN w.lastTs ELSE When(co),
                       !.finished = (Cardinality(as) = ts /\ nc)]

\* mutant: at least teamSize authors finish the window
handleSeqAtLeast(w, co, ts) ==
    IF w.finished THEN w
    ELSE IF NumParents(co) > 1 THEN w
    ELSE LET as == w.authors \cup {Author(co)}
             late == Before(w.lastTs, When(co))
             nc == IF late THEN TRUE ELSE w.nonChronological
         IN  [w EXCEPT !.end = co,
                       !.authors = as,
                       !.nonChronological = nc,
                       !.lastTs = IF late THEN w.lastTs ELSE When(co),
                       !.finished = (Cardinality(as) >= ts /\ nc)]

\* mutant: lastTs always becomes the timestamp of the folded commit
handleSeqLastTs(w, co, ts) ==
    IF w.finished THEN w
    ELSE IF NumParents(co) > 1 THEN w
    ELSE LET as == w.authors \cup {Author(co)}
             late == Before(w.lastTs, When(co))
             nc == IF late THEN TRUE ELSE w.nonChronological
         IN  [w EXCEPT !.end = co,
                       !.authors = as,
                       !.nonChronological = nc,
                       !.lastTs = When(co),
                       !.finished = (Cardinality(as) = ts /\ nc)]

\* the window after handle(co, teamSize)
handleSeq(w, co, ts) ==
    IF w.finished THEN w
    ELSE IF NumParents(co) > 1 THEN w
    ELSE LET as == w.authors \cup {Author(co)}
             late == Before(w.lastTs, When(co))
             nc == IF late THEN TRUE ELSE w.nonChronological
         IN  [w EXCEPT !.end = co,
                       !.authors = as,
                       !.nonChronological = nc,
                       !.lastTs = IF late THEN w.lastTs ELSE When(co),
                       !.finished = (Cardinality(as) = ts /\ nc)]

\* mutant: handle never reports a merge boundary
handleRetNever(w, co) == FALSE

\* the value handle(co, teamSize) returns
handleRet(w, co) ==
    IF w.finished THEN FALSE
    ELSE NumParents(co) > 1

(***************************************************************************)
(* Traverse and traverse                                                   *)
(***************************************************************************)
\* mutant: a commit that has been visited is not walked again
FrameOnce(co) ==
    IF \E k \in 1..Len(order) : order[k] = co
    THEN [co |-> co, i |-> NumParents(co), merge |-> FALSE, entered |-> TRUE]
    ELSE [co |-> co, i |-> 0, merge |-> FALSE, entered |-> FALSE]

\* the activation of traverse(co, ...) before its first statement
Frame(co) == [co |-> co, i |-> 0, merge |-> FALSE, entered |-> FALSE]

\* mutant: the window outlives the call (a package-level variable)
StaleSequence == cs

\* var cs commitsSequence: the zero value, new in every call of Traverse
NewSequence == ZeroSequence

\* mutant: the author is recorded only while the window is unfinished
amAfterUnfinished(set, co) == IF cs.finished THEN set ELSE set \cup {Author(co)}

\* mutant: the author of a merge commit is not recorded
amAfterNonMerge(set, co) ==
    IF NumParents(co) > 1 THEN set ELSE set \cup {Author(co)}

\* am[co.Author.Email] = struct{}{}
amAfter(set, co) == set \cup {Author(co)}

\* mutant: NumParents() > 0 instead of > 1
maAfterAnyParent(set, co) ==
    IF NumParents(co) > 0 THEN set \cup {Author(co)} ELSE set

\* if co.NumParents() > 1 { ma[co.Author.Email] = struct{}{} }
maAfter(set, co) == IF NumParents(co) > 1 THEN set \cup {Author(co)} ELSE set

\* mutant: no test for an earlier reference, a later match overwrites it
revRefAfterLast(ref, co) ==
    IF ParseRevertRef(Message(co)) # <<>> THEN ParseRevertRef(Message(co)) ELSE ref

\* if *revertRef == "" { *revertRef = ParseRevertRef(co.Message) }
revRefAfter(ref, co) ==
    IF ref = <<>> THEN ParseRevertRef(Message(co)) ELSE ref

\* mutant: the error of co.Parent(i) is ignored
ResolvesAlways(p) == TRUE

\* p, err := co.Parent(i): err == nil
Resolves(p) == p \notin missing

\* mutant: the call never returns to its caller
keepFrame(s) == s

\* the return of traverse: its activation record is gone
popFrame(s) == SubSeq(s, 1, Len(s) - 1)

Top == stack[Len(stack)]

SetTop(f) == [stack EXCEPT ![Len(stack)] = f]

\* Traverse, lines 20-30: fresh state, cs.reset(commit), the call of traverse
Call ==
    /\ \/ pc = "idle"
       \/ pc = "returned" /\ run < MaxCalls
    /\ pc' = "running"
    /\ run' = run + 1
    /\ prev' = result
    /\ result' = NoResult
    /\ am' = {}
    /\ ma' = {}
    /\ revRef' = <<>>
    /\ cs' = reset(NewSequence, tip)
    /\ stack' = <<Frame(tip)>>
    /\ order' = <<>>
    /\ UNCHANGED <<graph, missing, tip, teamSize, panicAt, msgIn, parsed,
                   srv>>

\* traverse, lines 104-116
Visit ==
    /\ pc = "running"
    /\ stack # <<>>
    /\ ~Top.entered
    /\ LET co == Top.co
       IN  /\ am' = amAfter(am, co)
           /\ cs' = handleSeq(cs, co, teamSize)
           /\ ma' = maAfter(ma, co)
           /\ revRef' = revRefAfter(revRef, co)
           /\ stack' = SetTop([Top EXCEPT !.entered = TRUE,
                                          !.merge = handleRet(cs, co)])
           /\ order' = Append(order, co)
    /\ UNCHANGED <<graph, missing, tip, teamSize, pc, result, run, prev,
                   panicAt, msgIn, parsed,
                   srv>>

\* traverse, lines 118-126: co.Parent(i) succeeds
Descend ==
    /\ pc = "running"
    /\ stack # <<>>
    /\ Top.entered
    /\ Top.i < NumParents(Top.co)
    /\ LET p == Parents(Top.co)[Top.i + 1]
       IN  /\ Resolves(p)
           /\ cs' = IF Top.merge THEN reset(cs, p) ELSE cs
           /\ stack' = Append(SetTop([Top EXCEPT !.i = Top.i + 1]), Frame(p))
    /\ UNCHANGED <<graph, missing, tip, teamSize, pc, am, ma, revRef, result,
                   run, prev, order, panicAt, msgIn, parsed,
                   srv>>

\* traverse, lines 119-122: co.Parent(i) fails and traverse panics
ResolveFail ==
    /\ pc = "running"
    /\ stack # <<>>
    /\ Top.entered
    /\ Top.i < NumParents(Top.co)
    /\ ~Resolves(Parents(Top.co)[Top.i + 1])
    /\ pc' = "panicked"
    /\ panicAt' = <<Top.co, Top.i>>
    /\ stack' = <<>>
    /\ UNCHANGED <<graph, missing, tip, teamSize, am, ma, cs, revRef, result,
                   run, prev, order, msgIn, parsed,
                   srv>>

\* traverse, lines 118 and 128: the loop is over and the call returns
Return ==
    /\ pc = "running"
    /\ stack # <<>>
    /\ Top.entered
    /\ Top.i = NumParents(Top.co)
    /\ stack' = popFrame(stack)
    /\ UNCHANGED <<graph, missing, tip, teamSize, pc, am, ma, cs, revRef,
                   result, run, prev, order, panicAt, msgIn, parsed,
                   srv>>

\* Traverse, lines 31-37
Finish ==
    /\ pc = "running"
    /\ stack = <<>>
    /\ pc' = "returned"
    /\ result' = [authors |-> am,
                  sequenceGood |-> cs.finished,
                  mergeAuthors |-> ma,
                  hasReverts |-> revRef # <<>>]
    /\ UNCHANGED <<graph, missing, tip, teamSize, am, ma, cs, revRef, stack,
                   run, prev, order, panicAt, msgIn, parsed,
                   srv>>

Next == Call \/ Visit \/ Descend \/ ResolveFail \/ Return \/ Finish

(***************************************************************************)
(* The repositories and inputs the traversal is checked on.                *)
(***************************************************************************)
ParentLists(c, n) ==
    {<<>>} \cup {<<p>> : p \in (c + 1)..n}
           \cup {pq \in ((c + 1)..n) \X ((c + 1)..n) : pq[1] # pq[2]}

RECURSIVE ReachIn(_, _, _)
\* commits reachable from the set front in a parent table
ReachIn(par, front, seen) ==
    IF front \subseteq seen THEN seen
    ELSE LET now == seen \cup front
         IN  ReachIn(par, UNION {{par[c][k] : k \in 1..Len(par[c])} : c \in front}, now)

\* parent tables on 1..n (a parent has a larger id than its child) in which
\* every commit is an ancestor of commit 1
Shapes(n) ==
    {par \in [1..n -> ParentLists(1, n)] :
        /\ \A c \in 1..n : par[c] \in ParentLists(c, n)
        /\ ReachIn(par, {1}, {}) = 1..n}

\* author assignments up to renaming: a commit is by a known author or the next new one
AuthorMaps(n) ==
    {f \in [1..n -> 1..n] :
        /\ f[1] = 1
        /\ \A c \in 2..n : \E d \in 1..(c - 1) : f[c] <= f[d] + 1}

MkGraph(n, par, au, ts, ms) ==
    [c \in 1..n |-> [author |-> AuthorName[au[c]], when |-> ts[c],
                     msg |-> ms[c], parents |-> par[c]]]

InitCall ==
    /\ pc = "idle"
    /\ am = {}
    /\ ma = {}
    /\ cs = ZeroSequence
    /\ revRef = <<>>
    /\ stack = <<>>
    /\ result = NoResult
    /\ run = 0
    /\ prev = NoResult
    /\ order = <<>>
    /\ panicAt = <<>>

\* authorship and chronology vary; messages are plain and every object loads
InitChrono ==
    /\ \E n \in 1..MaxCommits :
        \E par \in Shapes(n), au \in AuthorMaps(n), ts \in [1..n -> Times] :
            graph = MkGraph(n, par, au, ts, [c \in 1..n |-> "plain"])
    /\ missing = {}
    /\ tip = 1
    /\ teamSize \in TeamSizes

\* messages and the tip vary; every commit has an author of its own
InitRevert ==
    /\ \E n \in 1..MaxCommits :
        /\ \E par \in Shapes(n), ms \in [1..n -> MsgNames] :
              graph = MkGraph(n, par, [c \in 1..n |-> c], [c \in 1..n |-> 1], ms)
        /\ tip \in {1, Min(2, n)}
    /\ missing = {}
    /\ teamSize = 1

\* some objects other than the tip cannot be loaded
InitMissing ==
    /\ \E n \in 2..MaxCommits :
        /\ \E par \in Shapes(n) :
              graph = MkGraph(n, par, [c \in 1..n |-> c], [c \in 1..n |-> 1],
                              [c \in 1..n |-> "plain"])
        /\ missing \in (SUBSET (2..n)) \ {{}}
    /\ tip = 1
    /\ teamSize = 1

\* two commits on top of a merge: the window of the tip meets a merge boundary
BoundaryShapes ==
    {<<(<<2>>), (<<3>>), (<<4, 5>>), p4, (<<>>)>> : p4 \in {<<>>, <<5>>}}

InitBoundary ==
    /\ \E par \in BoundaryShapes, au \in [1..5 -> 1..2], ts \in [1..5 -> Times] :
          graph = MkGraph(5, par, au, ts, [c \in 1..5 |-> "plain"])
    /\ missing = {}
    /\ tip = 1
    /\ teamSize \in {1, 2}

Init ==
    /\ InitCall
    /\ InitChrono \/ InitRevert \/ InitMissing \/ InitBoundary
    /\ msgIn = <<>>
    /\ parsed = Unset
    /\ srv = ServerIdle

Spec == Init /\ [][Next]_vars

(***************************************************************************)
(* What the claims are measured against: the graph itself.                 *)
(***************************************************************************)
ParentTable == [c \in DOMAIN graph |-> Parents(c)]

\* the commits reachable from c0 over parent edges, c0 included
Reach(c0) == ReachIn(ParentTable, {c0}, {})

IsMerge(c) == NumParents(c) > 1

\* depth-first pre-order of a list of commits, parents taken in index order
RECURSIVE PreList(_)
PreList(s) ==
    IF s = <<>> THEN <<>>
    ELSE <<Head(s)>> \o PreList(Parents(Head(s))) \o PreList(Tail(s))

IsPrefix(s, t) == Len(s) <= Len(t) /\ SubSeq(t, 1, Len(s)) = s

Matches(c) == ParseRevertRef(Message(c)) # <<>>

\* the reference parsed from the first commit of a visit sequence that matches
FirstRef(s) ==
    IF \E k \in 1..Len(s) : Matches(s[k])
    THEN LET k == CHOOSE k \in 1..Len(s) :
                     Matches(s[k]) /\ \A j \in 1..(k - 1) : ~Matches(s[j])
         IN  ParseRevertRef(Message(s[k]))
    ELSE <<>>

(***************************************************************************)
(* C2: the authors Traverse returns are exactly the author identities of   *)
(* the commits reachable from the tip: all of them and no other, whatever  *)
(* teamSize, the merges and the state of the window.                       *)
(***************************************************************************)
C2_AuthorsExact ==
    pc = "returned" => result.authors = {Author(c) : c \in Reach(tip)}

C2_Witness ==
    /\ pc = "returned"
    /\ result.sequenceGood
    /\ \E c \in Reach(tip) : IsMerge(c)
    /\ Cardinality(result.authors) > teamSize

\* an unreachable commit by somebody else is in the repository
C2_WitnessUnreachable ==
    /\ pc = "returned"
    /\ \E c \in DOMAIN graph : c \notin Reach(tip) /\ Author(c) \notin result.authors

(***************************************************************************)
(* C3: the mergeAuthors Traverse returns are exactly the author identities *)
(* of the reachable commits with more than one parent; for a tip with two  *)
(* root parents that is the tip's author and neither parent's, unless it   *)
(* is the tip's as well.                                                   *)
(***************************************************************************)
TipOverTwoRoots ==
    /\ NumParents(tip) = 2
    /\ \A k \in 1..2 : NumParents(Parents(tip)[k]) = 0

C3_MergeAuthorsExact ==
    pc = "returned" =>
        /\ result.mergeAuthors = {Author(c) : c \in {d \in Reach(tip) : IsMerge(d)}}
        /\ TipOverTwoRoots => result.mergeAuthors = {Author(tip)}

C3_Witness ==
    /\ pc = "returned"
    /\ TipOverTwoRoots
    /\ Author(Parents(tip)[1]) # Author(tip)
    /\ Author(Parents(tip)[2]) # Author(tip)
    /\ Author(Parents(tip)[1]) # Author(Parents(tip)[2])

(***************************************************************************)
(* C4: the revert reference is write-once.  In every state of a traversal  *)
(* the commits visited so far are a prefix of the depth-first pre-order    *)
(* (parents in index order) and revRef is the reference parsed from the    *)
(* first visited commit whose message matches, so no later visit changes   *)
(* it; at the end hasReverts is true iff some reachable message matches.   *)
(***************************************************************************)
C4_RevertWriteOnce ==
    pc # "idle" =>
        /\ IsPrefix(order, PreList(<<tip>>))
        /\ revRef = FirstRef(order)
        /\ pc = "returned" =>
              (result.hasReverts <=> \E c \in Reach(tip) : Matches(c))

\* a second matching commit, with another reference, was visited after the first
C4_Witness ==
    /\ pc = "returned"
    /\ result.hasReverts
    /\ \E k \in 1..Len(order) :
          /\ Matches(order[k])
          /\ ParseRevertRef(Message(order[k])) # revRef


(***************************************************************************)
(* Runs of non-merge commits.                                              *)
(***************************************************************************)
\* where a maximal run begins: the tip, or a parent of a reachable merge
RunStarts ==
    {c \in Reach(tip) :
        /\ ~IsMerge(c)
        /\ \/ c = tip
           \/ \E d \in Reach(tip) :
                 IsMerge(d) /\ \E k \in 1..NumParents(d) : Parents(d)[k] = c}

\* the maximal run from c, in walk order: it ends at a root or in front of a merge
RECURSIVE RunFrom(_)
RunFrom(c) ==
    IF NumParents(c) = 1 /\ ~IsMerge(Parents(c)[1])
    THEN <<c>> \o RunFrom(Parents(c)[1])
    ELSE <<c>>

RunAuthors(r, k) == {Author(r[j]) : j \in 1..k}

\* by the k-th commit the run has exactly teamSize authors and holds an adjacent
\* pair (child, then parent) whose timestamps do not decrease
RunReaches(r, k) ==
    /\ Cardinality(RunAuthors(r, k)) = teamSize
    /\ \E j \in 1..(k - 1) : When(r[j + 1]) >= When(r[j])

(***************************************************************************)
(* C1: sequenceGood is true iff some maximal run of non-merge commits on a *)
(* path from the tip reaches exactly teamSize distinct authors and has an  *)
(* adjacent pair (child, then parent) with a non-decreasing timestamp.     *)
(***************************************************************************)
C1_SequenceIffRun ==
    pc = "returned" =>
        (result.sequenceGood <=>
            \E c \in RunStarts :
                \E k \in 1..Len(RunFrom(c)) : RunReaches(RunFrom(c), k))


(***************************************************************************)
(* A linear history of three non-merge commits by three authors.           *)
(***************************************************************************)
Second == Parents(tip)[1]
Third == Parents(Second)[1]

Linear3 ==
    /\ NumParents(tip) = 1
    /\ NumParents(Second) = 1
    /\ NumParents(Third) = 0
    /\ Cardinality({Author(tip), Author(Second), Author(Third)}) = 3
    /\ teamSize = 3

AllThreeFolded == pc \in {"running", "returned"} /\ Len(order) = 3

\* C5 as stated: with the middle commit's timestamp equal to or later than the
\* first's, sequenceGood is true once all three authors have been folded.
C5_Original ==
    (Linear3 /\ AllThreeFolded /\ When(Second) >= When(tip)) =>
        /\ cs.finished
        /\ pc = "returned" => result.sequenceGood

(***************************************************************************)
(* C5 (amended): for a linear history of 3 non-merge commits by 3 distinct *)
(* authors and teamSize = 3, sequenceGood is true once all 3 authors have  *)
(* been folded when the middle commit's author timestamp is strictly later *)
(* than the first's; when it is equal, only if the third commit's          *)
(* timestamp is strictly later than the middle's.  Before the third commit *)
(* is folded the window is not finished.                                   *)
(***************************************************************************)
C5_StrictlyLater ==
    Linear3 =>
        /\ AllThreeFolded =>
              /\ When(Second) > When(tip) => cs.finished
              /\ When(Second) = When(tip) =>
                    (cs.finished <=> When(Third) > When(Second))
        /\ pc = "running" /\ Len(order) < 3 => ~cs.finished
        /\ pc = "returned" => result.sequenceGood = cs.finished

C5_Witness ==
    /\ Linear3
    /\ pc = "returned"
    /\ When(Second) > When(tip)
    /\ result.sequenceGood

(***************************************************************************)
(* A repository whose tip is a root commit with an ordinary message.       *)
(***************************************************************************)
SingleRoot == NumParents(tip) = 0 /\ ~Matches(tip)

\* C6 as stated: the sequence is finished exactly when teamSize = 1.
C6_Original ==
    (SingleRoot /\ pc = "returned") =>
        /\ result.authors = {Author(tip)}
        /\ result.mergeAuthors = {}
        /\ ~result.hasReverts
        /\ result.sequenceGood <=> teamSize = 1

(***************************************************************************)
(* C6 (amended): for a single root tip commit whose message does not match *)
(* the revert pattern Traverse returns authors = {tip's author}, no merge  *)
(* authors, hasReverts false, and sequenceGood false for every teamSize,   *)
(* teamSize = 1 included.                                                  *)
(***************************************************************************)
C6_SingleRootResult ==
    (SingleRoot /\ pc = "returned") =>
        /\ result.authors = {Author(tip)}
        /\ result.mergeAuthors = {}
        /\ ~result.hasReverts
        /\ ~result.sequenceGood

C6_Witness ==
    /\ SingleRoot
    /\ pc = "returned"
    /\ teamSize = 1
    /\ Cardinality(result.authors) = teamSize


(***************************************************************************)
(* Parent resolution failures.                                             *)
(***************************************************************************)
\* the first resolution that fails when the loop of traverse(c) runs from index
\* i on, depth first: <<commit, index>>, or <<>> when every one succeeds
RECURSIVE FailFrom(_, _)
FailFrom(c, i) ==
    IF i >= NumParents(c) THEN <<>>
    ELSE LET p == Parents(c)[i + 1]
         IN  IF p \in missing THEN <<c, i>>
             ELSE LET below == FailFrom(p, 0)
                  IN  IF below # <<>> THEN below ELSE FailFrom(c, i + 1)

FirstFailure == FailFrom(tip, 0)

ResultFields == {"authors", "sequenceGood", "mergeAuthors", "hasReverts"}

(***************************************************************************)
(* C8: a call of Traverse has exactly two outcomes.  If every parent of    *)
(* every reachable commit resolves it returns a complete four-part result; *)
(* if some resolution fails it panics at the first failing resolution in   *)
(* DFS order and delivers no result at all.  A call that is neither        *)
(* returned nor panicked has delivered nothing.                            *)
(***************************************************************************)
C8_TwoOutcomes ==
    /\ pc = "returned" =>
          /\ FirstFailure = <<>>
          /\ DOMAIN result = ResultFields
    /\ pc = "panicked" =>
          /\ FirstFailure # <<>>
          /\ panicAt = FirstFailure
          /\ result = NoResult
    /\ pc \in {"idle", "running"} => result = NoResult

\* the panic came after commits had been visited and authors collected
C8_Witness ==
    /\ pc = "panicked"
    /\ Len(order) >= 2
    /\ Cardinality(am) >= 2
    /\ panicAt[2] = 1

(***************************************************************************)
(* C10: two invocations of Traverse with the same tip and teamSize on the  *)
(* same graph return identical results, and each invocation starts from    *)
(* fresh state: nothing of the first reaches the second.                   *)
(***************************************************************************)
C10_Idempotent ==
    /\ (pc = "returned" /\ run >= 2) => result = prev
    /\ (pc = "running" /\ order = <<>>) =>
          /\ am = {} /\ ma = {} /\ revRef = <<>>
          /\ cs = [start |-> tip, end |-> Nil, authors |-> {Author(tip)},
                   lastTs |-> When(tip), nonChronological |-> FALSE,
                   finished |-> FALSE]

\* the second invocation returned after a first one that left an unfinished,
\* non-chronological window behind
C10_Witness ==
    /\ pc = "returned"
    /\ run = 2
    /\ cs.nonChronological
    /\ ~result.sequenceGood
    /\ result.mergeAuthors # {}


(***************************************************************************)
(* Termination.  Traverse is one synchronous call: a step that can be      *)
(* taken is taken.                                                         *)
(***************************************************************************)
\* every shape, with any set of objects missing; one author, so that windows
\* finish on some walks and not on others
InitWalk ==
    /\ \E n \in 1..MaxCommits :
        /\ \E par \in Shapes(n), ts \in [1..n -> Times] :
              graph = MkGraph(n, par, [c \in 1..n |-> 1], ts,
                              [c \in 1..n |-> "plain"])
        /\ missing \in SUBSET (2..n)
    /\ tip = 1
    /\ teamSize = 1

InitLive ==
    /\ InitCall
    /\ InitWalk
    /\ msgIn = <<>>
    /\ parsed = Unset
    /\ srv = ServerIdle

SpecLive == InitLive /\ [][Next]_vars /\ WF_vars(Next)

(***************************************************************************)
(* C9: on a finite acyclic commit graph in which all parents resolve, a    *)
(* started Traverse eventually returns; the recursion bottoms out at the   *)
(* commits with zero parents, so the walk is the whole pre-order, and      *)
(* every started visit has returned by then.                               *)
(***************************************************************************)
C9_Terminates ==
    /\ (pc = "running" /\ FirstFailure = <<>>) ~> (pc = "returned")
    /\ [](pc = "returned" => stack = <<>> /\ order = PreList(<<tip>>))

\* a walk through a merge with a shared ancestor was completed
C9_Witness ==
    /\ pc = "returned"
    /\ Len(order) > Cardinality(Reach(tip))
    /\ \E c \in Reach(tip) : IsMerge(c)


(***************************************************************************)
(* ParseRevertRef on its own: a message is drawn, the function is applied. *)
(***************************************************************************)
Rep(ch, n) == [i \in 1..n |-> ch]

\* the two messages of TestParsecRevertRef
ExampleOther ==
    <<"s", "o", "m", "e", "t", "h", "i", "n", "g", " ", "e", "l", "s", "e">>

ExampleHash ==
    <<"3", "9", "7", "7", "4", "7", "d", "2", "2", "b",
      "d", "1", "2", "c", "c", "e", "4", "b", "c", "6",
      "b", "d", "0", "a", "a", "9", "7", "9", "a", "4",
      "f", "8", "e", "e", "d", "3", "d", "2", "9", "a">>

ExampleRevert ==
    <<"T", "h", "i", "s", " ", "r", "e", "v", "e", "r", "t", "s", " ",
      "c", "o", "m", "m", "i", "t", " ">> \o ExampleHash

\* what messages are put together from
Pieces ==
    { <<"r", "e", "v", "e", "r", "t">>,
      <<"R", "e", "v", "e", "r", "t">>,
      <<"R", "E", "V", "E", "R", "T">>,
      <<"x">>,
      <<" ">>,
      <<"\n">>,
      <<" ">> \o Rep("a", 7),
      <<" ">> \o Rep("b", 41),
      Rep("c", 6) }

RECURSIVE Flatten(_)
Flatten(ps) == IF ps = <<>> THEN <<>> ELSE Head(ps) \o Flatten(Tail(ps))

ParseInputs ==
    {ExampleOther, ExampleRevert}
        \cup UNION {{Flatten(ps) : ps \in [1..k -> Pieces]} : k \in 0..MaxPieces}

\* msg := the commit message; ParseRevertRef(msg)
Parse ==
    /\ parsed = Unset
    /\ parsed' = ParseRevertRef(msgIn)
    /\ UNCHANGED <<msgIn, travVars, srv>>

NextParse == Parse

InitParse ==
    /\ InitCall
    /\ graph = MkGraph(1, <<(<<>>)>>, <<1>>, <<1>>, <<"plain">>)
    /\ missing = {}
    /\ tip = 1
    /\ teamSize = 1
    /\ msgIn \in ParseInputs
    /\ parsed = Unset
    /\ srv = ServerIdle

SpecParse == InitParse /\ [][NextParse]_vars


(***************************************************************************)
(* What a message holds, stated over its positions.                        *)
(***************************************************************************)
Lower == <<"r", "e", "v", "e", "r", "t">>
Upper == <<"R", "E", "V", "E", "R", "T">>

\* the word revert at s, in any mix of cases
WordAnyCase(m, s) ==
    /\ s + 5 <= Len(m)
    /\ \A i \in 0..5 : m[s + i] \in {Lower[i + 1], Upper[i + 1]}

\* the word at s as 'revert' or 'Revert'
WordFirstCase(m, s) ==
    /\ s + 5 <= Len(m)
    /\ m[s] \in {"r", "R"}
    /\ \A i \in 1..5 : m[s + i] = Lower[i + 1]

\* a run of n lowercase hex digits begins at q, right after a whitespace
\* character, and is not continued by another digit
DigitsAt(m, q, n) ==
    /\ n >= 1
    /\ q > 1
    /\ q + n - 1 <= Len(m)
    /\ m[q - 1] \in SpaceChars
    /\ \A i \in q..(q + n - 1) : m[i] \in HexDigits
    /\ q + n <= Len(m) => m[q + n] \notin HexDigits

RunLengthAt(m, q) == CHOOSE n \in 1..Len(m) : DigitsAt(m, q, n)

\* C7 as stated: a token of 7 to 40 digits that follows the word revert, in any
\* case, after arbitrary text and at least one whitespace run
TokenAfterWord(m, q) ==
    /\ \E n \in 7..40 : DigitsAt(m, q, n)
    /\ \E s \in 1..Len(m) : WordAnyCase(m, s) /\ s + 6 <= q - 1

C7_Original ==
    parsed # Unset =>
        IF \E q \in 1..Len(msgIn) : TokenAfterWord(msgIn, q)
        THEN LET first == CHOOSE q \in 1..Len(msgIn) :
                            /\ TokenAfterWord(msgIn, q)
                            /\ \A r \in 1..(q - 1) : ~TokenAfterWord(msgIn, r)
             IN  parsed = SubSeq(msgIn, first,
                                 first + RunLengthAt(msgIn, first) - 1)
        ELSE parsed = <<>>

\* the digits at q can be reached from the word at s: at least 7 of them, and
\* no line feed between the word and the whitespace run in front of them
ReachableDigits(m, s, q) ==
    /\ \E n \in 7..Len(m) : DigitsAt(m, q, n)
    /\ s + 6 <= q - 1
    /\ \E p \in (s + 6)..(q - 1) :
          /\ \A i \in (s + 6)..(p - 1) : m[i] # "\n"
          /\ \A i \in p..(q - 1) : m[i] \in SpaceChars

UsableWord(m, s) ==
    WordFirstCase(m, s) /\ \E q \in 1..Len(m) : ReachableDigits(m, s, q)

(***************************************************************************)
(* C7 (amended): ParseRevertRef looks for the word as 'revert' or 'Revert' *)
(* (only the first letter may be upper case; 'REVERT' is not recognised)   *)
(* followed, after text without a line feed and at least one whitespace    *)
(* run, by at least 7 lowercase hexadecimal digits.  It takes the leftmost *)
(* such word and returns the last such run of digits after it, cut to its  *)
(* first 40 digits, and the empty string when there is none.  'This        *)
(* reverts commit 397747d22bd12cce4bc6bd0aa979a4f8eed3d29a' yields that    *)
(* 40-digit hash and 'something else' yields empty.                        *)
(***************************************************************************)
C7_LeftmostWordLastDigits ==
    parsed # Unset =>
        /\ IF \E s \in 1..Len(msgIn) : UsableWord(msgIn, s)
           THEN LET word == CHOOSE s \in 1..Len(msgIn) :
                              /\ UsableWord(msgIn, s)
                              /\ \A r \in 1..(s - 1) : ~UsableWord(msgIn, r)
                    last == CHOOSE q \in 1..Len(msgIn) :
                              /\ ReachableDigits(msgIn, word, q)
                              /\ \A r \in (q + 1)..Len(msgIn) :
                                    ~ReachableDigits(msgIn, word, r)
                    len  == RunLengthAt(msgIn, last)
                IN  parsed = SubSeq(msgIn, last, last + Min(len, 40) - 1)
           ELSE parsed = <<>>
        /\ msgIn = ExampleRevert => parsed = ExampleHash
        /\ msgIn = ExampleOther => parsed = <<>>

\* two runs of digits follow the word; the second, longer than 40, is returned cut
C7_Witness ==
    /\ parsed # Unset
    /\ Len(parsed) = 40
    /\ \E q \in 1..Len(msgIn) : DigitsAt(msgIn, q, 7)
    /\ \E q \in 1..Len(msgIn) : DigitsAt(msgIn, q, 41)


(***************************************************************************)
(* The window at the boundaries of the walk.                               *)
(***************************************************************************)
\* the frame of the caller of the running traverse
Caller == stack[Len(stack) - 1]

\* traverse(p, ...) has just been called from the loop of a commit whose handle
\* reported a merge boundary: cs.reset(p) was the statement before the call
JustReset ==
    /\ pc = "running"
    /\ Len(stack) >= 2
    /\ ~Top.entered
    /\ Caller.merge

\* a window that holds nothing but its start commit
BrandNew(p) ==
    [start |-> p, end |-> Nil, authors |-> {Author(p)}, lastTs |-> When(p),
     nonChronological |-> FALSE, finished |-> FALSE]

(***************************************************************************)
(* C11: whenever reset is applied to an unfinished window at a merge       *)
(* boundary with parent p, the resulting window is brand new: authors =    *)
(* {p's author}, lastTs = p's author time, end absent, nonChronological =  *)
(* false and finished = false; nothing is carried over from the discarded  *)
(* window.                                                                 *)
(***************************************************************************)
C11_ResetBrandNew ==
    (JustReset /\ ~cs.finished) => cs = BrandNew(Top.co)


(***************************************************************************)
(* C12: once the window's finished flag is true, every later handle call   *)
(* (for merge and non-merge commits alike) and every later reset call of   *)
(* the traversal leaves every field of the window unchanged, handle        *)
(* reports 'not a merge boundary', and the sequenceGood result is that     *)
(* frozen flag.                                                            *)
(***************************************************************************)
C12_FrozenOnceFinished ==
    [][(pc = "running" /\ cs.finished) =>
          /\ cs' = cs
          /\ order' # order => ~Top'.merge
          /\ pc' = "returned" => result'.sequenceGood]_vars

\* reset was called at a merge boundary on a window that an earlier parent's
\* ancestry had finished
C12_Witness ==
    /\ JustReset
    /\ cs.finished
    /\ Caller.i = 2

\* handle was called for a merge commit after the window had finished
C12_WitnessMerge ==
    /\ pc = "running"
    /\ stack # <<>>
    /\ Top.entered
    /\ IsMerge(Top.co)
    /\ ~Top.merge
    /\ cs.finished


(***************************************************************************)
(* Folding one commit.                                                     *)
(***************************************************************************)
\* the next statement is handle(co) for a non-merge commit on an unfinished window
Folding ==
    /\ pc = "running"
    /\ stack # <<>>
    /\ ~Top.entered
    /\ ~IsMerge(Top.co)
    /\ ~cs.finished

\* C13 as stated: a timestamp equal to or later than lastTs marks the window
\* non-chronological and leaves lastTs; a strictly earlier one replaces lastTs.
C13_Original ==
    [][Folding =>
          IF When(Top.co) >= cs.lastTs
          THEN cs'.nonChronological /\ cs'.lastTs = cs.lastTs
          ELSE /\ cs'.nonChronological = cs.nonChronological
               /\ cs'.lastTs = When(Top.co)]_vars

(***************************************************************************)
(* C13 (amended): when handle folds a non-merge commit into an unfinished  *)
(* window, nonChronological becomes true and lastTs is left unchanged if   *)
(* the commit's author timestamp is strictly later than lastTs; otherwise  *)
(* (equal or earlier) nonChronological is left unchanged and lastTs        *)
(* becomes the commit's author timestamp.                                  *)
(***************************************************************************)
C13_FoldStrictlyLater ==
    [][Folding =>
          IF When(Top.co) > cs.lastTs
          THEN cs'.nonChronological /\ cs'.lastTs = cs.lastTs
          ELSE /\ cs'.nonChronological = cs.nonChronological
               /\ cs'.lastTs = When(Top.co)]_vars

\* the second commit of a chain was folded with the timestamp of the first and
\* left the window chronological
C13_Witness ==
    /\ pc = "running"
    /\ stack # <<>>
    /\ order = <<tip, Top.co>>
    /\ Top.co # tip
    /\ cs.end = Top.co
    /\ When(Top.co) = When(tip)
    /\ cs.lastTs = When(tip)
    /\ ~cs.nonChronological


(***************************************************************************)
(* The commits a window has folded.                                        *)
(***************************************************************************)
\* the commits from s down to e over only-parent links
RECURSIVE ChainTo(_, _)
ChainTo(s, e) ==
    IF s = e \/ NumParents(s) # 1 THEN {s}
    ELSE {s} \cup ChainTo(Parents(s)[1], e)

WindowCommits == IF cs.end = Nil THEN {} ELSE ChainTo(cs.start, cs.end)

WindowAccounting ==
    pc # "idle" =>
        /\ cs.end = Nil =>
              /\ cs.authors = {Author(cs.start)}
              /\ cs.lastTs = When(cs.start)
        /\ cs.end # Nil =>
              /\ \A c \in WindowCommits : ~IsMerge(c)
              /\ cs.end \in WindowCommits
              /\ cs.authors = {Author(c) : c \in WindowCommits}
              /\ cs.lastTs \in {When(c) : c \in WindowCommits}

UnderMerge ==
    /\ pc = "running"
    /\ Len(stack) >= 2
    /\ ~Top.entered
    /\ IsMerge(Caller.co)

\* the visits since the calling merge was visited are exactly the walks of the
\* parents before the one being entered, in index order
EarlierParentsDone ==
    LET before == SubSeq(Parents(Caller.co), 1, Caller.i - 1)
        walked == <<Caller.co>> \o PreList(before)
    IN  /\ Top.co = Parents(Caller.co)[Caller.i]
        /\ Len(walked) <= Len(order)
        /\ SubSeq(order, Len(order) - Len(walked) + 1, Len(order)) = walked

\* the window is rooted at p and has folded nothing
RootedAt(p) ==
    /\ cs.start = p
    /\ cs.end = Nil
    /\ cs.authors = {Author(p)}
    /\ cs.lastTs = When(p)
    /\ ~cs.finished

\* C15 as stated: every merge starts a window rooted at each of its parents, in
\* index order, right before the descent and after the earlier parents' walks.
C15_Original ==
    UnderMerge => (EarlierParentsDone /\ RootedAt(Top.co))

(***************************************************************************)
(* C15 (amended): a visited commit with more than one parent starts a      *)
(* window rooted at each of its parents only while the window is not       *)
(* finished: for each parent, in index order, right before the descent     *)
(* into it and after the complete walk of the earlier parents' ancestries, *)
(* the window is rooted at that parent (start, authors and lastTs are the  *)
(* parent's, end is absent) unless it has finished; a finished window is   *)
(* kept as it is and no window is started.                                 *)
(***************************************************************************)
C15_WindowPerParentUnlessFinished ==
    UnderMerge =>
        /\ EarlierParentsDone
        /\ ~cs.finished => RootedAt(Top.co)
        /\ cs.finished => (cs.end # Nil /\ cs.end \in WindowCommits)

\* the second parent of a merge is entered with the window that the first
\* parent's ancestry finished
C15_Witness ==
    /\ UnderMerge
    /\ Caller.i = 2
    /\ Caller.merge
    /\ cs.finished
    /\ cs.start = Parents(Caller.co)[1]


(***************************************************************************)
(* Paths and visits.                                                       *)
(***************************************************************************)
\* the number of parent-edge paths from s down to c
RECURSIVE Paths(_, _), PathsVia(_, _, _)
Paths(s, c) == IF s = c THEN 1 ELSE PathsVia(s, c, NumParents(s))

\* those that leave s by one of its first k parent edges
PathsVia(s, c, k) ==
    IF k = 0 THEN 0
    ELSE Paths(Parents(s)[k], c) + PathsVia(s, c, k - 1)

\* how often c has been visited: added to the author set, handed to handle and
\* checked for a revert reference
Visits(c) == Cardinality({k \in 1..Len(order) : order[k] = c})

(***************************************************************************)
(* C16: the traversal does not deduplicate.  Each commit is visited        *)
(* exactly once per distinct parent-edge path from the tip to it, so a     *)
(* commit below a diamond merge is visited and folded again on each path;  *)
(* during the walk it has been visited at most that often.                 *)
(***************************************************************************)
C16_OncePerPath ==
    /\ pc = "returned" => \A c \in DOMAIN graph : Visits(c) = Paths(tip, c)
    /\ pc = "running" => \A c \in DOMAIN graph : Visits(c) <= Paths(tip, c)

\* a commit reached over both sides of a diamond has just been folded into a
\* window for the second time
C16_Witness ==
    /\ pc = "running"
    /\ stack # <<>>
    /\ Top.entered
    /\ Top.i = 0
    /\ Visits(Top.co) = 2
    /\ ~IsMerge(Top.co)
    /\ cs.end = Top.co
    /\ ~cs.finished


(***************************************************************************)
(* C18: in every reachable state finished = true implies that the window's *)
(* author set has exactly teamSize identities and nonChronological is      *)
(* true; consequently a window into which more than teamSize distinct      *)
(* authors have been folded can no longer become finished: no handle call  *)
(* finishes it.                                                            *)
(***************************************************************************)
C18_FinishedMeansTeamAndChrono ==
    [][/\ cs'.finished =>
             (Cardinality(cs'.authors) = teamSize /\ cs'.nonChronological)
       /\ (pc = "running" /\ order' # order
              /\ Cardinality(cs.authors) > teamSize) => ~cs'.finished]_vars

\* a non-chronological window with more authors than teamSize took one more
\* commit and the traversal ended without a finished window
C18_Witness ==
    /\ pc = "returned"
    /\ ~cs.finished
    /\ cs.nonChronological
    /\ Cardinality(cs.authors) > teamSize
    /\ \E c \in WindowCommits \ {cs.end} : Author(c) = Author(cs.end)


(***************************************************************************)
(* The window and the current DFS path.                                    *)
(***************************************************************************)
\* the activations k..Len(stack) are a chain of non-merge commits that begins
\* at the tip or at a parent of a merge
ChainOnPath(k) ==
    /\ k = 1 \/ IsMerge(stack[k - 1].co)
    /\ \A j \in k..Len(stack) : ~IsMerge(stack[j].co)

(***************************************************************************)
(* C19: while the window is unfinished, immediately after a non-merge      *)
(* commit c is folded the window's author set is the set of authors of the *)
(* contiguous single-parent chain from the window's start commit down to c *)
(* on the current DFS path; commits of a sibling branch explored earlier   *)
(* never remain in the window.                                             *)
(***************************************************************************)
C19_WindowIsChainOnPath ==
    (/\ pc = "running"
     /\ stack # <<>>
     /\ Top.entered
     /\ Top.i = 0
     /\ ~IsMerge(Top.co)
     /\ ~cs.finished) =>
        /\ cs.end = Top.co
        /\ \E k \in 1..Len(stack) :
              /\ ChainOnPath(k)
              /\ stack[k].co = cs.start
              /\ cs.authors = {Author(stack[j].co) : j \in k..Len(stack)}

\* the second parent of a merge was folded after the walk of the first parent,
\* whose author is not in the window
C19_Witness ==
    /\ pc = "running"
    /\ Len(stack) >= 2
    /\ Top.entered
    /\ Top.i = 0
    /\ ~IsMerge(Top.co)
    /\ ~cs.finished
    /\ Caller.merge
    /\ Caller.i = 2
    /\ Author(Parents(Caller.co)[1]) \notin cs.authors
    /\ ~IsMerge(Parents(Caller.co)[1])


(***************************************************************************)
(* C20: for every result of Traverse, mergeAuthors is a subset of authors, *)
(* and sequenceGood = true implies that authors has at least teamSize      *)
(* elements, so that in main TASK 3 passing implies TASK 1 passing.        *)
(***************************************************************************)
Task1Ok == ~(Cardinality(result.authors) < teamSize)

Task3Ok == result.sequenceGood

C20_ResultsConsistent ==
    pc = "returned" =>
        /\ result.mergeAuthors \subseteq result.authors
        /\ result.sequenceGood => Cardinality(result.authors) >= teamSize
        /\ Task3Ok => Task1Ok

\* a merge author who wrote no other commit, and a finished window with fewer
\* authors than the whole walk
C20_Witness ==
    /\ pc = "returned"
    /\ result.sequenceGood
    /\ Cardinality(result.authors) > teamSize
    /\ \E m \in Reach(tip) :
          /\ IsMerge(m)
          /\ \A c \in Reach(tip) \ {m} : Author(c) # Author(m)


(***************************************************************************)
(* CheckServer (check.go): the server of task 2 is started with 'go run .' *)
(* and asked for GET /time, at once and then on the ticks of a ticker.     *)
(***************************************************************************)
\* the ways check() fails: the request, the status code, the JSON body, the time
CheckErrors == {"transport", "status", "decode", "time"}

StartError == <<"start", 0>>
NoError == <<"nil", 0>>

RetryLimit == 2

\* mutant: the loop gives up after the first failed retry
retryOverAtOnce(rc) == rc = 1

\* if rc == 2 { return err }
retryOver(rc) == rc = RetryLimit

\* the deferred cmd.Process.Kill() and the return
Returned(s, value) ==
    [s EXCEPT !.pc = "done", !.ret = value, !.killed = s.started]

\* cmd.Start() fails: CheckServer returns its error, nothing is deferred yet
StartFails ==
    /\ srv.pc = "idle"
    /\ srv' = Returned(srv, StartError)
    /\ UNCHANGED <<travVars, msgIn, parsed>>

\* cmd.Start() succeeds; the first check is made at once
Start ==
    /\ srv.pc = "idle"
    /\ srv' = [srv EXCEPT !.pc = "check", !.started = TRUE]
    /\ UNCHANGED <<travVars, msgIn, parsed>>

\* check() returns nil: CheckServer returns nil
CheckOk ==
    /\ srv.pc = "check"
    /\ srv' = Returned([srv EXCEPT !.checks = @ + 1], NoError)
    /\ UNCHANGED <<travVars, msgIn, parsed>>

\* check() returns an error: after the first check the ticker is created, after
\* a retry rc is counted and the error is returned when rc is 2
CheckFails ==
    /\ srv.pc = "check"
    /\ \E kind \in CheckErrors :
          LET err == <<kind, srv.checks + 1>>
              s == [srv EXCEPT !.checks = @ + 1, !.errs = Append(@, err)]
          IN  srv' = IF ~srv.ticker
                     THEN [s EXCEPT !.pc = "wait", !.ticker = TRUE]
                     ELSE IF retryOver(srv.rc + 1)
                     THEN Returned([s EXCEPT !.rc = @ + 1], err)
                     ELSE [s EXCEPT !.pc = "wait", !.rc = @ + 1]
    /\ UNCHANGED <<travVars, msgIn, parsed>>

\* case <-retryTick.C
Tick ==
    /\ srv.pc = "wait"
    /\ srv' = [srv EXCEPT !.pc = "check", !.ticks = @ + 1]
    /\ UNCHANGED <<travVars, msgIn, parsed>>

NextServer == StartFails \/ Start \/ CheckOk \/ CheckFails \/ Tick

InitServer ==
    /\ InitCall
    /\ graph = MkGraph(1, <<(<<>>)>>, <<1>>, <<1>>, <<"plain">>)
    /\ missing = {}
    /\ tip = 1
    /\ teamSize = 1
    /\ msgIn = <<>>
    /\ parsed = Unset
    /\ srv = ServerIdle

\* the ticker ticks, and a check ends within the timeout of its context
SpecServer == InitServer /\ [][NextServer]_vars /\ WF_vars(NextServer)

(***************************************************************************)
(* C17: CheckServer makes at most three HTTP checks, one at once and one   *)
(* on each of up to two retry ticks; it returns nil as soon as a check     *)
(* succeeds and makes no further check; it returns the error of the third  *)
(* check when all three fail; it always terminates; and the started        *)
(* process is killed on every return path after a successful start.        *)
(***************************************************************************)
C17_ThreeChecksThenKill ==
    /\ [](/\ srv.checks <= 3
          /\ srv.ticks <= 2
          /\ srv.started => srv.checks \in {srv.ticks, srv.ticks + 1})
    /\ []((srv.pc = "done" /\ srv.started) =>
            /\ srv.killed
            /\ srv.ret = NoError => Len(srv.errs) = srv.checks - 1
            /\ srv.ret # NoError =>
                  /\ srv.checks = 3
                  /\ Len(srv.errs) = 3
                  /\ srv.ret = srv.errs[3])
    /\ []((srv.pc = "done" /\ ~srv.started) =>
            (srv.ret = StartError /\ srv.checks = 0 /\ ~srv.killed))
    /\ []((srv.pc # "done") => (srv.ret = <<>> /\ ~srv.killed))
    /\ [][srv.pc = "done" => srv' = srv]_vars
    /\ <>(srv.pc = "done")

\* three checks failed, the first and the third in the same way, and the error
\* of the third was returned after the process was killed
C17_Witness ==
    /\ srv.pc = "done"
    /\ srv.checks = 3
    /\ Len(srv.errs) = 3
    /\ srv.killed
    /\ srv.errs[1][1] = srv.errs[3][1]
    /\ srv.errs[2][1] # srv.errs[3][1]
    /\ srv.ret = srv.errs[3]

\* the second retry succeeded
C17_WitnessThirdOk ==
    /\ srv.pc = "done"
    /\ srv.checks = 3
    /\ srv.ret = NoError
    /\ srv.killed

====
